---- MODULE Spec2Model ----
(***************************************************************************)
(* Model of src/implementation/async_slice.go: AsyncSlice, a slice plus a   *)
(* worker count, with six operations (All, Any, Each, Filter, Map, Reduce)  *)
(* that fan the slice's indices out to goroutines over a buffered jobs      *)
(* channel.  One behaviour of the model is one call of one operation.       *)
(*                                                                         *)
(* Go indices are 0-based and are kept 0-based in the jobs channel; the     *)
(* TLA+ sequences are 1-based, so s.data[index] is data[index + 1].         *)
(***************************************************************************)
EXTENDS Integers, Sequences, FiniteSets

\* ---------------------------------------------------------------- bounds
\* longest slice the model enumerates
MaxLen == 3
\* the elements are drawn from 0..MaxVal
MaxVal == 1

\* the zero value of T (var tmp T; make([]T, n) fills with it)
ZeroT == 0

Values == 0..MaxVal
\* the s.workers settings the model enumerates: 0, 1..n and one value > n
WorkerSettings == 0..(MaxLen + 1)
\* Reduce's first round may spawn len(state) = 2 * len(s.data) workers
Pool == 1..(2 * MaxLen)
Indices == 0..(2 * MaxLen - 1)

Data == UNION {[1..n -> Values] : n \in 0..MaxLen}

ShortOps == {"All", "Any"}
ScanOps == {"Each", "Filter", "Map"}
ReduceOps == {"Reduce"}
Ops == ShortOps \cup ScanOps \cup ReduceOps

\* ------------------------------------------------- caller-supplied functions
Preds == {"pos", "even", "any"}
Transforms == {"dbl", "inc"}
Visits == {"visit"}
Combines == {"add", "max", "left"}
\* the combines that are associative and commutative
AssocComm == {"add", "max"}
\* the combines that are associative; left, the left projection, is
\* associative and not commutative, like the concatenation of sequences
Assoc == {"add", "max", "left"}

FnsOf(o) ==
    IF o \in {"All", "Any", "Filter"} THEN Preds
    ELSE IF o = "Map" THEN Transforms
    ELSE IF o = "Each" THEN Visits
    ELSE Combines

\* f(el) for a predicate f
Pred(f, x) ==
    IF f = "pos" THEN x > 0
    ELSE IF f = "even" THEN x % 2 = 0
    ELSE TRUE

\* f(el) for a transformation f
Transform(f, x) ==
    IF f = "dbl" THEN x * 2 ELSE x + 1

\* f(left, right) for a combine f
Combine(f, a, b) ==
    IF f = "add" THEN a + b
    ELSE IF f = "max" THEN (IF a >= b THEN a ELSE b)
    ELSE a

\* ------------------------------------------------------------------ state
VARIABLES
    op,           \* the operation called
    data,         \* s.data
    workers,      \* s.workers
    fn,           \* the function passed to the operation
    pc,           \* position of the calling goroutine
    i,            \* loop counter of the scheduling loop
    nworkers,     \* the local variable workers (the pool size)
    jobs,         \* buffered contents of the jobs channel
    jobsClosed,   \* close(jobs) has run
    result,       \* buffered contents of the result channel
    resultClosed, \* close(result) has run
    wg,           \* the WaitGroup counter
    cancelled,    \* cancel() has run, ctx.Done() is closed
    wpc,          \* position of each worker goroutine
    widx,         \* the index each worker received last
    cpc,          \* position of the goroutine that closes result
    resultMap,    \* Filter: resultMap
    resultSlice,  \* Map: result
    state,        \* Reduce: state
    newState,     \* Reduce: newState
    round,        \* Reduce: number of rounds started
    calls,        \* how often f was called for each job index (this round)
    ret           \* the value returned

vars == <<op, data, workers, fn, pc, i, nworkers, jobs, jobsClosed, result,
          resultClosed, wg, cancelled, wpc, widx, cpc, resultMap,
          resultSlice, state, newState, round, calls, ret>>

inputs == <<op, data, workers, fn>>
chans == <<jobs, jobsClosed, result, resultClosed>>
wstate == <<wpc, widx>>
outs == <<resultMap, resultSlice, state, newState, round, ret>>

NoRet == "none"

InitOf(ops) ==
    /\ op \in ops
    /\ data \in Data
    /\ workers \in WorkerSettings
    /\ fn \in FnsOf(op)
    /\ pc = "start"
    /\ i = 0
    /\ nworkers = 0
    /\ jobs = <<>>
    /\ jobsClosed = FALSE
    /\ result = <<>>
    /\ resultClosed = FALSE
    /\ wg = 0
    /\ cancelled = FALSE
    /\ wpc = [w \in Pool |-> "none"]
    /\ widx = [w \in Pool |-> 0]
    /\ cpc = "none"
    /\ resultMap = <<>>
    /\ resultSlice = <<>>
    /\ state = <<>>
    /\ newState = <<>>
    /\ round = 0
    /\ calls = [k \in Indices |-> 0]
    /\ ret = NoRet

Init == InitOf(Ops)

\* ------------------------------------------------------------- dispatcher
\* "calculate workers count": the same four lines in every operation
WorkersCount(w, n) ==
    IF w = 0 \/ w > n THEN n ELSE w

\* "run workers": make the channels, wg.Add(workers), start the goroutines.
\* No worker can take a step before the first job is sent, so the spawn
\* loop is one step.  All and Any also start the goroutine closing result.
RunWorkers ==
    /\ pc = "run"
    /\ op \in ShortOps \cup ScanOps
    /\ nworkers' = WorkersCount(workers, Len(data))
    /\ jobs' = <<>>
    /\ jobsClosed' = FALSE
    /\ result' = <<>>
    /\ resultClosed' = FALSE
    /\ wg' = wg + nworkers'
    /\ wpc' = [w \in Pool |-> IF w <= nworkers' THEN "ready" ELSE "none"]
    /\ cpc' = IF op \in ShortOps THEN "wait" ELSE "none"
    /\ i' = 0
    /\ calls' = [k \in Indices |-> 0]
    /\ pc' = "schedule"
    /\ UNCHANGED <<inputs, cancelled, widx, outs>>

\* a jobs channel sized by the pool: make(chan int, workers)
JobsCapWorkers == nworkers

\* capacity of the jobs channel: make(chan int, len(s.data))
JobsCap == IF op = "Reduce" THEN Len(state) ELSE Len(data)

\* a result channel one place short of the pool in All and Any
ResultCapShort ==
    IF op = "Reduce" THEN 1
    ELSE IF nworkers > 1 THEN nworkers - 1 ELSE nworkers

\* capacity of the result channel: workers in All and Any, 1 in Reduce
ResultCap == IF op = "Reduce" THEN 1 ELSE nworkers

\* for i := 0; i < len(s.data); i++ { jobs <- i }
Schedule ==
    /\ pc = "schedule"
    /\ op \in ShortOps \cup ScanOps
    /\ i < Len(data)
    /\ Len(jobs) < JobsCap
    /\ jobs' = Append(jobs, i)
    /\ i' = i + 1
    /\ UNCHANGED <<inputs, pc, nworkers, jobsClosed, result, resultClosed, wg,
                   cancelled, wstate, cpc, outs, calls>>

\* close(jobs), then wait: on result (All, Any) or on the WaitGroup
CloseJobs ==
    /\ pc = "schedule"
    /\ op \in ShortOps \cup ScanOps
    /\ i >= Len(data)
    /\ jobsClosed' = TRUE
    /\ pc' = IF op \in ShortOps THEN "collect" ELSE "wait"
    /\ UNCHANGED <<inputs, i, nworkers, jobs, result, resultClosed, wg,
                   cancelled, wstate, cpc, outs, calls>>

\* Worker self is blocked in its receive (select or range).  The workers
\* run the same closure and hold no live local while blocked, so blocked
\* workers are interchangeable: a receive, a close or a cancellation that
\* wakes one of them is attributed to the lowest-numbered one.
Blocked(self) ==
    /\ wpc[self] = "ready"
    /\ \A w \in Pool : w < self => wpc[w] # "ready"

\* the call of f has returned: the loop variable index is dead
Forget(self) == widx' = [widx EXCEPT ![self] = 0]

\* a worker returns: the goroutine ends and wg.Done() runs
WorkerReturn(self) ==
    /\ wpc' = [wpc EXCEPT ![self] = "done"]
    /\ wg' = wg - 1

\* a receive that leaves the index in the queue
WorkerPullPeek(self) ==
    /\ Blocked(self)
    /\ jobs # <<>>
    /\ widx' = [widx EXCEPT ![self] = Head(jobs)]
    /\ wpc' = [wpc EXCEPT ![self] = "eval"]
    /\ calls' = [calls EXCEPT ![Head(jobs)] = @ + 1]
    /\ UNCHANGED <<inputs, pc, i, nworkers, jobs, jobsClosed, result,
                   resultClosed, wg, cancelled, cpc, outs>>

\* case index, ok := <-jobs with ok true / for index := range jobs:
\* the worker receives the oldest index and calls f on it
WorkerPull(self) ==
    /\ Blocked(self)
    /\ jobs # <<>>
    /\ widx' = [widx EXCEPT ![self] = Head(jobs)]
    /\ jobs' = Tail(jobs)
    /\ wpc' = [wpc EXCEPT ![self] = "eval"]
    /\ calls' = [calls EXCEPT ![Head(jobs)] = @ + 1]
    /\ UNCHANGED <<inputs, pc, i, nworkers, jobsClosed, result, resultClosed,
                   wg, cancelled, cpc, outs>>

\* the jobs channel is closed and drained: the worker stops
WorkerClosed(self) ==
    /\ Blocked(self)
    /\ jobs = <<>>
    /\ jobsClosed
    /\ WorkerReturn(self)
    /\ UNCHANGED <<inputs, pc, i, nworkers, chans, cancelled, widx, cpc,
                   outs, calls>>

\* case <-ctx.Done(): return (All and Any).  select picks any ready case,
\* so this does not exclude WorkerPull.
WorkerCancelled(self) ==
    /\ op \in ShortOps
    /\ Blocked(self)
    /\ cancelled
    /\ WorkerReturn(self)
    /\ UNCHANGED <<inputs, pc, i, nworkers, chans, cancelled, widx, cpc,
                   outs, calls>>

\* the closing goroutine without wg.Wait()
CloserNoWait ==
    /\ cpc = "wait"
    /\ resultClosed' = TRUE
    /\ cpc' = "done"
    /\ UNCHANGED <<inputs, pc, i, nworkers, jobs, jobsClosed, result, wg,
                   cancelled, wstate, outs, calls>>

\* go func() { wg.Wait(); close(result) }(): nothing observes the return of
\* wg.Wait() before close(result), so the two are one step
Closer ==
    /\ cpc = "wait"
    /\ wg = 0
    /\ resultClosed' = TRUE
    /\ cpc' = "done"
    /\ UNCHANGED <<inputs, pc, i, nworkers, jobs, jobsClosed, result, wg,
                   cancelled, wstate, outs, calls>>

\* -------------------------------------------------------------- All, Any
\* if len(s.data) == 0 { return true }
AllStart ==
    /\ pc = "start"
    /\ op = "All"
    /\ IF Len(data) = 0
       THEN ret' = TRUE /\ pc' = "done"
       ELSE ret' = ret /\ pc' = "run"
    /\ UNCHANGED <<inputs, i, nworkers, chans, wg, cancelled, wstate, cpc,
                   resultMap, resultSlice, state, newState, round, calls>>

\* Any with the empty-slice result of All
AnyStartTrue ==
    /\ pc = "start"
    /\ op = "Any"
    /\ IF Len(data) = 0
       THEN ret' = TRUE /\ pc' = "done"
       ELSE ret' = ret /\ pc' = "run"
    /\ UNCHANGED <<inputs, i, nworkers, chans, wg, cancelled, wstate, cpc,
                   resultMap, resultSlice, state, newState, round, calls>>

\* if len(s.data) == 0 { return false }
AnyStart ==
    /\ pc = "start"
    /\ op = "Any"
    /\ IF Len(data) = 0
       THEN ret' = FALSE /\ pc' = "done"
       ELSE ret' = ret /\ pc' = "run"
    /\ UNCHANGED <<inputs, i, nworkers, chans, wg, cancelled, wstate, cpc,
                   resultMap, resultSlice, state, newState, round, calls>>

\* a worker of All that stops on a counterexample without publishing it
AllWorkerEvalSilent(self) ==
    /\ op = "All"
    /\ wpc[self] = "eval"
    /\ IF ~Pred(fn, data[widx[self] + 1])
       THEN WorkerReturn(self)
       ELSE wpc' = [wpc EXCEPT ![self] = "ready"] /\ wg' = wg
    /\ Forget(self)
    /\ UNCHANGED <<inputs, pc, i, nworkers, chans, cancelled, cpc, outs, calls>>

\* All's worker after f returned: if !f(s.data[index]) { result <- false; return }
AllWorkerEval(self) ==
    /\ op = "All"
    /\ wpc[self] = "eval"
    /\ wpc' = [wpc EXCEPT ![self] =
                 IF ~Pred(fn, data[widx[self] + 1]) THEN "send" ELSE "ready"]
    /\ Forget(self)
    /\ UNCHANGED <<inputs, pc, i, nworkers, chans, wg, cancelled, cpc, outs, calls>>

\* a worker of Any with the test of All's worker: if !f(s.data[index])
AnyWorkerEvalNegated(self) ==
    /\ op = "Any"
    /\ wpc[self] = "eval"
    /\ wpc' = [wpc EXCEPT ![self] =
                 IF ~Pred(fn, data[widx[self] + 1]) THEN "send" ELSE "ready"]
    /\ Forget(self)
    /\ UNCHANGED <<inputs, pc, i, nworkers, chans, wg, cancelled, cpc, outs,
                   calls>>

\* Any's worker after f returned: if f(s.data[index]) { result <- true; return }
AnyWorkerEval(self) ==
    /\ op = "Any"
    /\ wpc[self] = "eval"
    /\ wpc' = [wpc EXCEPT ![self] =
                 IF Pred(fn, data[widx[self] + 1]) THEN "send" ELSE "ready"]
    /\ Forget(self)
    /\ UNCHANGED <<inputs, pc, i, nworkers, chans, wg, cancelled, cpc, outs, calls>>

\* result <- false (All), result <- true (Any): the send completes; the
\* worker has still to return
ShortWorkerSend(self) ==
    /\ op \in ShortOps
    /\ wpc[self] = "send"
    /\ Len(result) < ResultCap
    /\ ~resultClosed
    /\ result' = Append(result, op = "Any")
    /\ wpc' = [wpc EXCEPT ![self] = "sent"]
    /\ UNCHANGED <<inputs, pc, i, nworkers, jobs, jobsClosed, resultClosed, wg,
                   cancelled, widx, cpc, outs, calls>>

\* return after the send: the deferred wg.Done() runs
ShortWorkerExit(self) ==
    /\ op \in ShortOps
    /\ wpc[self] = "sent"
    /\ WorkerReturn(self)
    /\ UNCHANGED <<inputs, pc, i, nworkers, chans, cancelled, widx, cpc, outs,
                   calls>>

\* for range result { return false }; return true
AllCollect ==
    /\ pc = "collect"
    /\ op = "All"
    /\ \/ /\ result # <<>>
          /\ result' = Tail(result)
          /\ ret' = FALSE
       \/ /\ result = <<>>
          /\ resultClosed
          /\ result' = result
          /\ ret' = TRUE
    /\ pc' = "return"
    /\ UNCHANGED <<inputs, i, nworkers, jobs, jobsClosed, resultClosed, wg,
                   cancelled, wstate, cpc, resultMap, resultSlice, state,
                   newState, round, calls>>

\* for range result { return true }; return false
AnyCollect ==
    /\ pc = "collect"
    /\ op = "Any"
    /\ \/ /\ result # <<>>
          /\ result' = Tail(result)
          /\ ret' = TRUE
       \/ /\ result = <<>>
          /\ resultClosed
          /\ result' = result
          /\ ret' = FALSE
    /\ pc' = "return"
    /\ UNCHANGED <<inputs, i, nworkers, jobs, jobsClosed, resultClosed, wg,
                   cancelled, wstate, cpc, resultMap, resultSlice, state,
                   newState, round, calls>>

\* defer cancel(): runs when All or Any returns
ShortReturn ==
    /\ pc = "return"
    /\ op \in ShortOps
    /\ cancelled' = TRUE
    /\ pc' = "done"
    /\ UNCHANGED <<inputs, i, nworkers, chans, wg, wstate, cpc, outs, calls>>

NextShort ==
    \/ AllStart
    \/ AnyStart
    \/ RunWorkers
    \/ Schedule
    \/ CloseJobs
    \/ AllCollect
    \/ AnyCollect
    \/ ShortReturn
    \/ Closer
    \/ \E self \in Pool : WorkerPull(self)
    \/ \E self \in Pool : WorkerClosed(self)
    \/ \E self \in Pool : WorkerCancelled(self)
    \/ \E self \in Pool : AllWorkerEval(self)
    \/ \E self \in Pool : AnyWorkerEval(self)
    \/ \E self \in Pool : ShortWorkerSend(self)
    \/ \E self \in Pool : ShortWorkerExit(self)

SpecShort == InitOf(ShortOps) /\ [][NextShort]_vars

\* the mathematical definitions
ForAll(f, xs) == \A k \in 1..Len(xs) : Pred(f, xs[k])
Exists(f, xs) == \E k \in 1..Len(xs) : Pred(f, xs[k])

\* C1: when All has returned on a non-empty slice, the value returned is
\* true exactly when the predicate holds for every element, whatever the
\* worker count and whichever workers ran in whichever order.
AllCorrect ==
    (op = "All" /\ pc \in {"return", "done"} /\ Len(data) > 0)
        => (ret = ForAll(fn, data))

\* All has returned false although several workers found a counterexample
\* and others were still at work
AllWitness ==
    /\ op = "All" /\ pc = "done" /\ Len(data) = MaxLen
    /\ ret = FALSE
    /\ Len(result) >= 1
    /\ \E w \in Pool : wpc[w] = "eval"

\* C2: when Any has returned on a non-empty slice, the value returned is
\* true exactly when the predicate holds for at least one element.
AnyCorrect ==
    (op = "Any" /\ pc \in {"return", "done"} /\ Len(data) > 0)
        => (ret = Exists(fn, data))

\* Any has returned false with more jobs than workers: every index was
\* evaluated (to false) first
AnyWitness ==
    /\ op = "Any" /\ pc = "done" /\ Len(data) = MaxLen /\ nworkers < MaxLen
    /\ ret = FALSE
    /\ \A k \in 0..(Len(data) - 1) : calls[k] = 1

\* ------------------------------------------------------ Each, Filter, Map
\* Each has no empty-slice check: it goes straight to the pool
EachStart ==
    /\ pc = "start"
    /\ op = "Each"
    /\ pc' = "run"
    /\ UNCHANGED <<inputs, i, nworkers, chans, wg, cancelled, wstate, cpc, outs,
                   calls>>

\* resultMap := make([]bool, len(s.data))
FilterStart ==
    /\ pc = "start"
    /\ op = "Filter"
    /\ resultMap' = [k \in 1..Len(data) |-> FALSE]
    /\ pc' = "run"
    /\ UNCHANGED <<inputs, i, nworkers, chans, wg, cancelled, wstate, cpc,
                   resultSlice, state, newState, round, ret, calls>>

\* result := make([]G, len(s.data))
MapStart ==
    /\ pc = "start"
    /\ op = "Map"
    /\ resultSlice' = [k \in 1..Len(data) |-> ZeroT]
    /\ pc' = "run"
    /\ UNCHANGED <<inputs, i, nworkers, chans, wg, cancelled, wstate, cpc,
                   resultMap, state, newState, round, ret, calls>>

\* Each's worker: f(s.data[index]) has returned
EachWorkerEval(self) ==
    /\ op = "Each"
    /\ wpc[self] = "eval"
    /\ wpc' = [wpc EXCEPT ![self] = "ready"]
    /\ Forget(self)
    /\ UNCHANGED <<inputs, pc, i, nworkers, chans, wg, cancelled, cpc, outs, calls>>

\* a Filter worker that marks the first slot whatever its index
FilterSlotFirst(self) == 1

\* a Filter worker that marks the slot after the one of its index
FilterSlotNext(self) == widx[self] + 2

\* the slot a Filter worker sets for the index it holds
FilterSlot(self) == widx[self] + 1

\* Filter's worker: if f(s.data[index]) { resultMap[index] = true }
FilterWorkerEval(self) ==
    /\ op = "Filter"
    /\ wpc[self] = "eval"
    /\ resultMap' = IF Pred(fn, data[widx[self] + 1])
                    THEN [resultMap EXCEPT ![FilterSlot(self)] = TRUE]
                    ELSE resultMap
    /\ wpc' = [wpc EXCEPT ![self] = "ready"]
    /\ Forget(self)
    /\ UNCHANGED <<inputs, pc, i, nworkers, chans, wg, cancelled, cpc, resultSlice, state, newState, round, ret, calls>>

\* a Map worker that writes every result to the first slot
MapSlotFirst(self) == 1

\* the slot a Map worker writes for the index it holds
MapSlot(self) == widx[self] + 1

\* Map's worker: result[index] = f(s.data[index])
MapWorkerEval(self) ==
    /\ op = "Map"
    /\ wpc[self] = "eval"
    /\ resultSlice' = [resultSlice EXCEPT ![MapSlot(self)] =
                         Transform(fn, data[widx[self] + 1])]
    /\ wpc' = [wpc EXCEPT ![self] = "ready"]
    /\ Forget(self)
    /\ UNCHANGED <<inputs, pc, i, nworkers, chans, wg, cancelled, cpc, resultMap, state, newState, round, ret, calls>>

\* the caller does not wait for the workers
WaitSkipped == TRUE

\* wg.Wait() has returned
WaitDone == wg = 0

\* Each: wg.Wait(), then return
EachWait ==
    /\ pc = "wait"
    /\ op = "Each"
    /\ WaitDone
    /\ pc' = "done"
    /\ UNCHANGED <<inputs, i, nworkers, chans, wg, cancelled, wstate, cpc, outs,
                   calls>>

\* Filter: wg.Wait(), then the compaction pass
FilterWait ==
    /\ pc = "wait"
    /\ op = "Filter"
    /\ WaitDone
    /\ pc' = "compact"
    /\ UNCHANGED <<inputs, i, nworkers, chans, wg, cancelled, wstate, cpc, outs,
                   calls>>

\* for i, el := range s.data { if resultMap[i] { result = append(result, el) } }
RECURSIVE Compact(_, _)
Compact(xs, keep) ==
    IF xs = <<>> THEN <<>>
    ELSE IF Head(keep) THEN <<Head(xs)>> \o Compact(Tail(xs), Tail(keep))
    ELSE Compact(Tail(xs), Tail(keep))

\* Filter: "return filtered results"
FilterCompact ==
    /\ pc = "compact"
    /\ op = "Filter"
    /\ ret' = Compact(data, resultMap)
    /\ pc' = "done"
    /\ UNCHANGED <<inputs, i, nworkers, chans, wg, cancelled, wstate, cpc,
                   resultMap, resultSlice, state, newState, round, calls>>

\* Map: wg.Wait(); return result
MapWait ==
    /\ pc = "wait"
    /\ op = "Map"
    /\ WaitDone
    /\ ret' = resultSlice
    /\ pc' = "done"
    /\ UNCHANGED <<inputs, i, nworkers, chans, wg, cancelled, wstate, cpc,
                   resultMap, resultSlice, state, newState, round, calls>>

NextScan ==
    \/ EachStart
    \/ FilterStart
    \/ MapStart
    \/ RunWorkers
    \/ Schedule
    \/ CloseJobs
    \/ EachWait
    \/ FilterWait
    \/ FilterCompact
    \/ MapWait
    \/ \E self \in Pool : WorkerPull(self)
    \/ \E self \in Pool : WorkerClosed(self)
    \/ \E self \in Pool : EachWorkerEval(self)
    \/ \E self \in Pool : FilterWorkerEval(self)
    \/ \E self \in Pool : MapWorkerEval(self)

SpecScan == InitOf(ScanOps) /\ [][NextScan]_vars

\* the subsequence of xs whose elements satisfy f, in order
RECURSIVE Select(_, _)
Select(f, xs) ==
    IF xs = <<>> THEN <<>>
    ELSE IF Pred(f, Head(xs)) THEN <<Head(xs)>> \o Select(f, Tail(xs))
    ELSE Select(f, Tail(xs))

\* C3: the sequence Map returns has the length of the slice and holds
\* transform(xs[i]) at every index i, whatever the worker count and order.
MapCorrect ==
    (op = "Map" /\ pc = "done")
        => /\ Len(ret) = Len(data)
           /\ \A k \in 1..Len(data) : ret[k] = Transform(fn, data[k])

\* Map has returned a slice of full length that one worker filled alone
MapWitness ==
    /\ op = "Map" /\ pc = "done" /\ Len(data) = MaxLen /\ nworkers = 1
    /\ Len(ret) = MaxLen
    /\ \E k \in 1..MaxLen : ret[k] # ZeroT

\* C4: the sequence Filter returns is exactly the subsequence of the slice
\* whose elements satisfy the predicate, in their original order.
FilterCorrect ==
    (op = "Filter" /\ pc = "done") => (ret = Select(fn, data))

\* Filter has returned after dropping an element that lies between kept ones
FilterWitness ==
    /\ op = "Filter" /\ pc = "done" /\ Len(data) = MaxLen /\ nworkers > 1
    /\ Len(ret) = MaxLen - 1
    /\ ~resultMap[2]

\* C5: f is never called twice for an index, and when Each has returned f
\* has been called once for each index 0..n-1 and every call has completed.
EachOnce ==
    (op = "Each")
        => /\ \A k \in Indices : calls[k] <= 1
           /\ (pc = "done")
                 => /\ \A k \in 0..(Len(data) - 1) : calls[k] = 1
                    /\ \A w \in Pool : wpc[w] # "eval"

\* Each has returned with fewer workers than elements
EachWitness ==
    /\ op = "Each" /\ pc = "done" /\ Len(data) = MaxLen
    /\ nworkers = 2
    /\ \A k \in 0..(MaxLen - 1) : calls[k] = 1

\* ----------------------------------------------------------------- Reduce
\* state := make([]T, len(s.data)); state = append(state, s.data...)
InitState(xs) == [k \in 1..Len(xs) |-> ZeroT] \o xs

\* if len(s.data) == 0 { var tmp T; return tmp }, else build state
ReduceStart ==
    /\ pc = "start"
    /\ op = "Reduce"
    /\ IF Len(data) = 0
       THEN ret' = ZeroT /\ state' = state /\ pc' = "done"
       ELSE ret' = ret /\ state' = InitState(data) /\ pc' = "loop"
    /\ UNCHANGED <<inputs, i, nworkers, chans, wg, cancelled, wstate, cpc,
                   resultMap, resultSlice, newState, round, calls>>

\* for len(state) > 1: a round starts; workers count, channels, wg.Add,
\* the workers and the goroutine closing result
ReduceRun ==
    /\ pc = "loop"
    /\ op = "Reduce"
    /\ Len(state) > 1
    /\ nworkers' = WorkersCount(workers, Len(state))
    /\ jobs' = <<>>
    /\ jobsClosed' = FALSE
    /\ result' = <<>>
    /\ resultClosed' = FALSE
    /\ wg' = wg + nworkers'
    /\ wpc' = [w \in Pool |-> IF w <= nworkers' THEN "ready" ELSE "none"]
    /\ cpc' = "wait"
    /\ i' = 0
    /\ calls' = [k \in Indices |-> 0]
    /\ round' = round + 1
    /\ pc' = "schedule"
    /\ UNCHANGED <<inputs, cancelled, widx, resultMap, resultSlice, state,
                   newState, ret>>

\* the loop has ended: return state[0]
ReduceReturn ==
    /\ pc = "loop"
    /\ op = "Reduce"
    /\ Len(state) <= 1
    /\ ret' = state[1]
    /\ pc' = "done"
    /\ UNCHANGED <<inputs, i, nworkers, chans, wg, cancelled, wstate, cpc,
                   resultMap, resultSlice, state, newState, round, calls>>

\* for i := 0; i < len(state)-1; i += 2 { jobs <- i }
ReduceSchedule ==
    /\ pc = "schedule"
    /\ op = "Reduce"
    /\ i < Len(state) - 1
    /\ Len(jobs) < JobsCap
    /\ jobs' = Append(jobs, i)
    /\ i' = i + 2
    /\ UNCHANGED <<inputs, pc, nworkers, jobsClosed, result, resultClosed, wg,
                   cancelled, wstate, cpc, outs, calls>>

\* close(jobs); newState := make([]T, 0, ...)
ReduceCloseJobs ==
    /\ pc = "schedule"
    /\ op = "Reduce"
    /\ i >= Len(state) - 1
    /\ jobsClosed' = TRUE
    /\ newState' = <<>>
    /\ pc' = "collect"
    /\ UNCHANGED <<inputs, i, nworkers, jobs, result, resultClosed, wg,
                   cancelled, wstate, cpc, resultMap, resultSlice, state, round,
                   ret, calls>>

\* result <- f(state[index], state[index+1]): f is pure, so the end of its
\* evaluation is not observable before the send, which blocks while the
\* channel (capacity 1) is full
ReduceWorkerSend(self) ==
    /\ op = "Reduce"
    /\ wpc[self] = "eval"
    /\ Len(result) < ResultCap
    /\ ~resultClosed
    /\ result' = Append(result,
                        Combine(fn, state[widx[self] + 1], state[widx[self] + 2]))
    /\ wpc' = [wpc EXCEPT ![self] = "ready"]
    /\ Forget(self)
    /\ UNCHANGED <<inputs, pc, i, nworkers, jobs, jobsClosed, resultClosed, wg,
                   cancelled, cpc, outs, calls>>

\* for el := range result { newState = append(newState, el) }
ReduceCollect ==
    /\ pc = "collect"
    /\ op = "Reduce"
    /\ result # <<>>
    /\ newState' = Append(newState, Head(result))
    /\ result' = Tail(result)
    /\ UNCHANGED <<inputs, pc, i, nworkers, jobs, jobsClosed, resultClosed, wg,
                   cancelled, wstate, cpc, resultMap, resultSlice, state, round,
                   ret, calls>>

\* the range over result ends as soon as the channel is empty
ReduceCollectEndEarly ==
    /\ pc = "collect"
    /\ op = "Reduce"
    /\ result = <<>>
    /\ pc' = "carry"
    /\ UNCHANGED <<inputs, i, nworkers, chans, wg, cancelled, wstate, cpc, outs,
                   calls>>

\* the range over result ends: the channel is closed and drained
ReduceCollectEnd ==
    /\ pc = "collect"
    /\ op = "Reduce"
    /\ result = <<>>
    /\ resultClosed
    /\ pc' = "carry"
    /\ UNCHANGED <<inputs, i, nworkers, chans, wg, cancelled, wstate, cpc, outs,
                   calls>>

\* the last element is carried whatever the parity
CarriedAlways(ns, st) == Append(ns, st[Len(st)])

\* the leftover of an odd round is not carried
CarriedDropped(ns, st) == ns

\* if len(state)%2 == 1 { newState = append(newState, state[len(state)-1]) }
Carried(ns, st) ==
    IF Len(st) % 2 = 1 THEN Append(ns, st[Len(st)]) ELSE ns

\* the leftover is carried and state = newState
ReduceCarry ==
    /\ pc = "carry"
    /\ op = "Reduce"
    /\ state' = Carried(newState, state)
    /\ pc' = "loop"
    /\ UNCHANGED <<inputs, i, nworkers, chans, wg, cancelled, wstate, cpc,
                   resultMap, resultSlice, newState, round, ret, calls>>

NextReduce ==
    \/ ReduceStart
    \/ ReduceRun
    \/ ReduceReturn
    \/ ReduceSchedule
    \/ ReduceCloseJobs
    \/ ReduceCollect
    \/ ReduceCollectEnd
    \/ ReduceCarry
    \/ Closer
    \/ \E self \in Pool : WorkerPull(self)
    \/ \E self \in Pool : WorkerClosed(self)
    \/ \E self \in Pool : ReduceWorkerSend(self)

SpecReduce == InitOf(ReduceOps) /\ [][NextReduce]_vars

\* the left-to-right fold of a non-empty sequence
RECURSIVE FoldLeft(_, _, _)
FoldLeft(f, acc, xs) ==
    IF xs = <<>> THEN acc ELSE FoldLeft(f, Combine(f, acc, Head(xs)), Tail(xs))

Fold(f, xs) == FoldLeft(f, Head(xs), Tail(xs))

\* [combine(a[0],a[1]), combine(a[2],a[3]), ...] in ascending pair order
PairResults(f, a) ==
    [k \in 1..(Len(a) \div 2) |-> Combine(f, a[2 * k - 1], a[2 * k])]

\* C6: with an associative and commutative combine, the value Reduce returns
\* on a non-empty slice depends on the slice alone: for every worker count
\* and every order of the workers it is the left-to-right fold of the
\* working sequence the call starts from.
ReduceAssocCommSame ==
    (op = "Reduce" /\ pc = "done" /\ Len(data) > 0 /\ fn \in AssocComm)
        => (ret = Fold(fn, InitState(data)))

\* Reduce has added up a slice of full length in three rounds, one of them
\* odd, with one worker per element
ReduceAssocCommWitness ==
    /\ op = "Reduce" /\ pc = "done" /\ Len(data) = MaxLen
    /\ fn = "add" /\ workers = 0 /\ round >= 3
    /\ ret >= 2

\* C7: Reduce on a slice of one element returns that element, starts no
\* round, spawns no worker and never calls combine.
ReduceSingleUntouched ==
    (op = "Reduce" /\ pc = "done" /\ Len(data) = 1)
        => /\ ret = data[1]
           /\ round = 0
           /\ nworkers = 0
           /\ \A k \in Indices : calls[k] = 0

\* C8: when the results of a round have all been collected, newState is
\* [combine(a[0],a[1]), combine(a[2],a[3]), ...] in ascending pair order,
\* whatever the order in which the workers finished.
ReducePairOrder ==
    (op = "Reduce" /\ pc = "carry") => (newState = PairResults(fn, state))

\* C9: the working sequence paired in round 1 is the slice's own elements.
ReduceFirstRound ==
    (op = "Reduce" /\ round = 1 /\ pc \in {"schedule", "collect", "carry"})
        => (state = data)

\* C10: with an associative combine the value Reduce returns on a non-empty
\* slice is the same for every worker count and every order of the workers:
\* the value of the run with one worker, which pairs in order.
ReduceAssocSame ==
    (op = "Reduce" /\ pc = "done" /\ Len(data) > 0 /\ fn \in Assoc)
        => (ret = Fold(fn, InitState(data)))

\* with one worker the results of every round arrive in pair order, and
\* Reduce returns the in-order value
ReduceOneWorker ==
    (op = "Reduce" /\ pc = "done" /\ Len(data) > 0 /\ workers = 1)
        => (ret = Fold(fn, InitState(data)))

\* ------------------------------------------------------- the whole program
\* every action once: the union of NextShort, NextScan and NextReduce
Next ==
    \/ AllStart
    \/ AnyStart
    \/ EachStart
    \/ FilterStart
    \/ MapStart
    \/ ReduceStart
    \/ RunWorkers
    \/ Schedule
    \/ CloseJobs
    \/ AllCollect
    \/ AnyCollect
    \/ ShortReturn
    \/ EachWait
    \/ FilterWait
    \/ FilterCompact
    \/ MapWait
    \/ ReduceRun
    \/ ReduceReturn
    \/ ReduceSchedule
    \/ ReduceCloseJobs
    \/ ReduceCollect
    \/ ReduceCollectEnd
    \/ ReduceCarry
    \/ Closer
    \/ \E self \in Pool : WorkerPull(self)
    \/ \E self \in Pool : WorkerClosed(self)
    \/ \E self \in Pool : WorkerCancelled(self)
    \/ \E self \in Pool : AllWorkerEval(self)
    \/ \E self \in Pool : AnyWorkerEval(self)
    \/ \E self \in Pool : ShortWorkerSend(self)
    \/ \E self \in Pool : ShortWorkerExit(self)
    \/ \E self \in Pool : EachWorkerEval(self)
    \/ \E self \in Pool : FilterWorkerEval(self)
    \/ \E self \in Pool : MapWorkerEval(self)
    \/ \E self \in Pool : ReduceWorkerSend(self)

Spec == Init /\ [][Next]_vars

\* One function per operation: the claims about dispatch (which goroutine
\* runs when, which index goes where) depend on f only through the truth
\* values of the predicate, and "pos" yields every pattern of them.
MainFn(o) ==
    IF o \in {"All", "Any", "Filter"} THEN "pos"
    ELSE IF o = "Map" THEN "dbl"
    ELSE IF o = "Each" THEN "visit"
    ELSE "add"

InitMain == Init /\ fn = MainFn(op)

SpecMain == InitMain /\ [][Next]_vars

\* The course of a call depends on an element only through the outcome of
\* the user function on it; with MainFn the least and the greatest value
\* give both outcomes of the predicate.
Extremes == {0, MaxVal}

InitFair == InitMain /\ \A k \in 1..Len(data) : data[k] \in Extremes

\* scheduling is fair: a goroutine that can take a step is not left
\* waiting forever
FairMain == InitFair /\ [][Next]_vars /\ WF_vars(Next)

\* no worker goroutine was started
NoWorker == \A w \in Pool : wpc[w] = "none"

\* every worker goroutine that was started has stopped
AllStopped == \A w \in Pool : wpc[w] \in {"none", "done"}

\* C11: on an empty slice the user function is never called and every
\* operation can run on until it has returned; All returns true, Any false,
\* Reduce the zero value, Filter and Map an empty sequence, Each nothing;
\* All, Any and Reduce start no worker.
EmptyDefaults ==
    (Len(data) = 0)
        => /\ \A k \in Indices : calls[k] = 0
           /\ \A w \in Pool : wpc[w] # "eval"
           /\ (pc # "done") => ENABLED Next
           /\ (op \in {"All", "Any", "Reduce"}) => NoWorker
           /\ (pc = "done") =>
                 /\ (op = "All") => (ret = TRUE)
                 /\ (op = "Any") => (ret = FALSE)
                 /\ (op = "Reduce") => (ret = ZeroT)
                 /\ (op \in {"Filter", "Map"}) => (ret = <<>>)
                 /\ (op = "Each") => (ret = NoRet)

\* Any has returned false on an empty slice with a positive workers setting
EmptyWitness ==
    /\ op = "Any" /\ Len(data) = 0 /\ workers > 0
    /\ pc = "done" /\ ret = FALSE

\* C12 as stated: when a call has returned, every worker it started has
\* stopped, so none evaluates the user function after the return.
PoolTornDown ==
    (pc = "done") => AllStopped

\* the call returned the value it returns when no worker published one
\* (All true, Any false), or it is no short-circuit operation
ReturnedAfterClose ==
    \/ op \notin ShortOps
    \/ ret = (op = "All")

\* C12 amended: Each, Filter, Map and Reduce, and All and Any when they
\* return the non-deciding value, return only after every worker has
\* stopped and the closing goroutine has finished.
PoolTornDownUnlessEarly ==
    (pc = "done" /\ ReturnedAfterClose)
        => /\ AllStopped
           /\ cpc \in {"none", "done"}

\* All has returned true after a pool of several workers drained the queue
PoolTornDownWitness ==
    /\ op = "All" /\ pc = "done" /\ Len(data) = MaxLen /\ nworkers >= 2
    /\ ret = TRUE
    /\ \A w \in Pool : w <= nworkers => wpc[w] = "done"

\* number of worker goroutines started by the call (in the current round)
Spawned == Cardinality({w \in Pool : wpc[w] # "none"})

\* C13: once the workers of a call (of a round, in Reduce) are started,
\* their number is n = len(s.data) when w = 0 or w > n and w otherwise,
\* hence within 1..n.
PoolSizeClamped ==
    (Len(data) > 0 /\ Spawned > 0)
        => /\ Spawned = WorkersCount(workers, Len(data))
           /\ Spawned >= 1
           /\ Spawned <= Len(data)

\* the pool of All, Any, Each, Filter and Map has the size C13 states
PoolSizeOutsideReduce ==
    (op # "Reduce" /\ Len(data) > 0 /\ pc \notin {"start", "run"})
        => /\ Spawned = WorkersCount(workers, Len(data))
           /\ Spawned >= 1
           /\ Spawned <= Len(data)

\* C14: in All and Any, once cancel() has run no worker receives a further
\* job, so no evaluation of the predicate starts after it.
NoPullAfterCancel ==
    [][(op \in ShortOps /\ cancelled) => (calls' = calls)]_vars

\* how often index k is waiting in the jobs channel
Queued(k) == Cardinality({p \in 1..Len(jobs) : jobs[p] = k})

\* the indices the scheduling loop of the call (of the round) queues
JobIndices ==
    IF op = "Reduce"
    THEN {k \in Indices : k % 2 = 0 /\ k < Len(state) - 1}
    ELSE 0..(Len(data) - 1)

\* All or Any has a deciding value: published, or already returned
Decided ==
    \/ Len(result) > 0
    \/ pc \in {"return", "done"} /\ ret = (op = "Any")

\* C15: an index is queued at most once and received at most once, by one
\* worker; when Each, Filter or Map returns and when a round of Reduce is
\* collected every queued index has been received exactly once; in All and
\* Any an index stays unreceived for good only if a deciding value exists.
JobsDeliveredOnce ==
    /\ \A k \in Indices : calls[k] + Queued(k) <= 1
    /\ \A v, w \in Pool :
          (v # w /\ wpc[v] = "eval" /\ wpc[w] = "eval") => widx[v] # widx[w]
    /\ (op \in ScanOps /\ pc \in {"compact", "done"})
          => \A k \in JobIndices : calls[k] = 1
    /\ (op = "Reduce" /\ pc = "carry")
          => \A k \in Indices : calls[k] = (IF k \in JobIndices THEN 1 ELSE 0)
    /\ (op \in ShortOps /\ pc \in {"collect", "return", "done"} /\ AllStopped
          /\ \E k \in JobIndices : calls[k] = 0)
          => Decided

\* Any has returned true and every worker has stopped with the last index
\* still in the queue
JobsDeliveredWitness ==
    /\ op = "Any" /\ pc = "done" /\ Len(data) = MaxLen /\ AllStopped
    /\ ret = TRUE
    /\ calls[MaxLen - 1] = 0 /\ Queued(MaxLen - 1) = 1

\* C16: a round of Reduce is complete before the next one starts: when the
\* collection of a round has ended, and when the loop is about to spawn the
\* next round, every worker of the round has stopped, its jobs are all
\* received, its result channel is closed and drained, and the
\* Len(state) \div 2 pair results are in the new working sequence.
ReduceRoundBarrier ==
    (op = "Reduce" /\ round >= 1 /\ pc \in {"carry", "loop", "done"})
       => /\ AllStopped
          /\ cpc = "done"
          /\ wg = 0
          /\ jobs = <<>> /\ jobsClosed
          /\ result = <<>> /\ resultClosed
          /\ (pc = "carry") => Len(newState) = Len(state) \div 2

\* the second round is complete and a third one is about to start
ReduceRoundBarrierWitness ==
    /\ op = "Reduce" /\ pc = "loop" /\ round = 2 /\ Len(state) > 1
    /\ nworkers >= 1 /\ \A w \in Pool : w <= nworkers => wpc[w] = "done"

\* C17: the step that ends a round over a working sequence of length
\* m >= 2 leaves one of length (m + 1) \div 2, which is shorter, and a
\* Reduce over a non-empty slice returns with a working sequence of length 1.
ReduceHalves ==
    /\ [][(op = "Reduce" /\ pc = "carry")
             => /\ Len(state) >= 2
                /\ Len(state') = (Len(state) + 1) \div 2
                /\ Len(state') < Len(state)]_vars
    /\ []((op = "Reduce" /\ pc = "done" /\ Len(data) > 0) => Len(state) = 1)

\* the loop has ended after an even round, an odd round with a carried
\* element and a last round over a pair
ReduceHalvesWitness ==
    /\ op = "Reduce" /\ pc = "done" /\ Len(data) = MaxLen
    /\ round >= 3 /\ Len(state) = 1

\* the worker that holds index k and is leaving its evaluation in this step
WriterOf(k) ==
    \E w \in Pool : wpc[w] = "eval" /\ widx[w] = k /\ wpc'[w] # "eval"

\* the calling thread is past wg.Wait() and reads the output structure
Reading == pc \in {"compact", "done"}

\* C18: in Filter and Map a slot changes only in the step of the worker that
\* received its index, two workers evaluating at once hold different slots,
\* every index is received at most once, a slot whose index nobody received
\* still has its initial value, and the calling thread reads the structure
\* only when every worker has returned, after which no slot changes.
SlotsDisjoint ==
    /\ [][(pc # "start") =>
            \A k \in 1..Len(data) :
               /\ (op = "Filter" /\ resultMap'[k] # resultMap[k])
                     => (WriterOf(k - 1) /\ ~Reading)
               /\ (op = "Map" /\ resultSlice'[k] # resultSlice[k])
                     => (WriterOf(k - 1) /\ ~Reading)]_vars
    /\ [](op \in {"Filter", "Map"} =>
            /\ \A v, w \in Pool :
                  (v # w /\ wpc[v] = "eval" /\ wpc[w] = "eval")
                     => (FilterSlot(v) # FilterSlot(w) /\ MapSlot(v) # MapSlot(w))
            /\ \A k \in Indices : calls[k] <= 1
            /\ (pc # "start") =>
                  \A k \in 1..Len(data) :
                     (calls[k - 1] = 0) =>
                        (IF op = "Filter" THEN resultMap[k] = FALSE
                                          ELSE resultSlice[k] = ZeroT)
            /\ Reading => (AllStopped /\ wg = 0))

\* two Filter workers are evaluating at once after a third slot was marked
SlotsDisjointWitness ==
    /\ op = "Filter" /\ Len(data) = MaxLen /\ pc # "start"
    /\ \E v, w \in Pool : v # w /\ wpc[v] = "eval" /\ wpc[w] = "eval"
    /\ \E k \in 1..Len(data) : resultMap[k]

\* the calling thread can take its next step of the scheduling loop
CanEnqueue == ENABLED (Schedule \/ CloseJobs \/ ReduceSchedule \/ ReduceCloseJobs)

\* C19: under fair scheduling every call returns; a state without a next
\* step is one where the call has returned and every worker and the closer
\* have stopped; the calling thread is never blocked in the scheduling loop;
\* Reduce workers holding a pair (evaluating, or blocked sending the result
\* on the full channel) always get to send it and stop.
EventuallyReturns ==
    /\ <>(pc = "done")
    /\ []((~ENABLED Next) =>
            (pc = "done" /\ AllStopped /\ cpc \in {"none", "done"}))
    /\ [](pc = "schedule" => CanEnqueue)
    /\ (op = "Reduce" /\ \E w \in Pool : wpc[w] = "eval") ~> AllStopped

\* a Reduce worker is blocked on the full result channel while the calling
\* thread is still queueing jobs
EventuallyReturnsWitness ==
    /\ op = "Reduce" /\ Len(data) = MaxLen /\ pc = "schedule"
    /\ jobs # <<>> /\ Len(result) = ResultCap
    /\ \E w \in Pool : wpc[w] = "eval"

\* the values sent on the result channel so far: those buffered and the one
\* the calling thread received
Sent ==
    Len(result)
      + (IF pc \in {"return", "done"} /\ Len(data) > 0 /\ ret = (op = "Any")
         THEN 1 ELSE 0)

\* the workers past the send statement or returned
PastSend == {w \in Pool : wpc[w] \in {"sent", "done"}}

\* what a step of All or Any may do to the result channel and its users
ShortResultStep ==
    /\ \A w \in Pool : /\ (wpc[w] = "done") => (wpc'[w] = "done")
                       /\ (wpc[w] = "sent") => (wpc'[w] \in {"sent", "done"})
    /\ (Len(result') > Len(result)) =>
          \E w \in Pool : wpc[w] = "send" /\ wpc'[w] = "sent"
    /\ resultClosed => resultClosed'
    /\ (cpc = "done") => (cpc' = "done")

\* C20: in All and Any the result channel never holds more values than its
\* capacity, a worker about to send finds room in it and finds it open, a
\* value is sent only by the step that takes a worker past its send
\* statement, from where it can only return, and a returned worker takes no
\* further step, so at most one value per worker;
\* the channel is closed by the one step of the closer and stays closed; and
\* every worker and the closer eventually stop, the call having returned.
ShortResultChannel ==
    /\ [](op \in ShortOps =>
            /\ Len(result) <= ResultCap
            /\ \A w \in Pool :
                  (wpc[w] = "send") => (Len(result) < ResultCap /\ ~resultClosed)
            /\ Sent <= Cardinality(PastSend)
            /\ resultClosed <=> (cpc = "done"))
    /\ [][(op \in ShortOps) => ShortResultStep]_vars
    /\ (op \in ShortOps) ~>
          (pc = "done" /\ AllStopped /\ cpc \in {"none", "done"})

\* All returned false on the first value; a second worker has sent its own
\* value since, every worker has returned and the closer has closed the
\* channel with that value still in it
ShortResultChannelWitness ==
    /\ op = "All" /\ Len(data) = MaxLen /\ pc = "done" /\ ret = FALSE
    /\ AllStopped /\ cpc = "done" /\ resultClosed
    /\ Len(result) >= 1

====
